---- MODULE Spec2Model ----
(***************************************************************************)
(* Model of demo_app.py, the demo application of cjm-fasthtml-web-audio:   *)
(* the startup scan of the segments directory, the audio URLs built from   *)
(* it, the segment cards of the two player instances, and the two routes   *)
(* (index and src) served while the filesystem changes underneath.         *)
(*                                                                         *)
(* A string is a sequence of one-character strings, so that splitting,     *)
(* matching, sorting and decoding are computed, not assumed.               *)
(***************************************************************************)
EXTENDS Integers, Sequences, FiniteSets, TLC

VARIABLES
    fs,            \* the filesystem: path |-> [kind, bytes]; a path outside DOMAIN fs does not exist
    fsOps,         \* number of filesystem changes made by the environment so far
    pc,            \* position of main() (and of the __main__ block after it)
    stdout,        \* what main() has printed
    audio_files,   \* main(): the sorted scan result
    audio_urls,    \* main(): the URL of each audio file
    router,        \* routes declared on router / audio_router, not yet registered
    app_routes,    \* routes registered on the app
    page_content,  \* the closure returned by render_demo_page
    reqs,          \* the requests being handled, one record per connection
    listCall       \* a call of build_segment_list: its arguments and its result

vars == <<fs, fsOps, pc, stdout, audio_files, audio_urls, router, app_routes,
          page_content, reqs, listCall>>

-----------------------------------------------------------------------------
(* Bounds of the model *)

\* filesystem changes the environment makes in one run
MaxFsOps == 1
\* connections handled concurrently
MaxRequests == 2
\* entries of the segments directory at startup (SpecStartup)
MaxEntries == 3
\* length of the file list handed to build_segment_list (SpecList)
MaxFiles == 7
\* largest max_display handed to build_segment_list (SpecList)
MaxDisplay == 7

-----------------------------------------------------------------------------
(* Characters and strings *)

Range(s) == {s[i] : i \in 1..Len(s)}

Min(a, b) == IF a < b THEN a ELSE b

Max(a, b) == IF a > b THEN a ELSE b

\* ord(c): the code point, for the characters the model uses
Ord(c) ==
    CASE c = " " -> 32  [] c = "#" -> 35  [] c = "%" -> 37  [] c = "&" -> 38
      [] c = "*" -> 42  [] c = "+" -> 43  [] c = "-" -> 45  [] c = "." -> 46
      [] c = "/" -> 47  [] c = "0" -> 48  [] c = "1" -> 49  [] c = "2" -> 50
      [] c = "3" -> 51  [] c = "4" -> 52  [] c = "5" -> 53  [] c = "6" -> 54
      [] c = "7" -> 55  [] c = "8" -> 56  [] c = "9" -> 57  [] c = "=" -> 61
      [] c = "?" -> 63  [] c = "A" -> 65  [] c = "B" -> 66  [] c = "M" -> 77
      [] c = "P" -> 80  [] c = "a" -> 97  [] c = "b" -> 98  [] c = "c" -> 99
      [] c = "d" -> 100 [] c = "e" -> 101 [] c = "f" -> 102 [] c = "h" -> 104
      [] c = "i" -> 105 [] c = "m" -> 109 [] c = "o" -> 111 [] c = "p" -> 112
      [] c = "r" -> 114 [] c = "s" -> 115 [] c = "t" -> 116 [] c = "u" -> 117
      [] c = "v" -> 118 [] c = "w" -> 119 [] c = "x" -> 120
      [] OTHER -> 65533

Alphabet ==
    {" ", "#", "%", "&", "*", "+", "-", ".", "/", "0", "1", "2", "3", "4", "5",
     "6", "7", "8", "9", "=", "?", "A", "B", "M", "P", "a", "b", "c", "d", "e",
     "f", "h", "i", "m", "o", "p", "r", "s", "t", "u", "v", "w", "x"}

\* chr(n); a code point outside the alphabet is kept apart as "U+FFFD"
Chr(n) == IF \E c \in Alphabet : Ord(c) = n
          THEN CHOOSE c \in Alphabet : Ord(c) = n
          ELSE "U+FFFD"

\* str < str of Python: lexicographic by code point
RECURSIVE StrLess(_, _)
StrLess(s, t) ==
    IF t = <<>> THEN FALSE
    ELSE IF s = <<>> THEN TRUE
    ELSE IF Head(s) = Head(t) THEN StrLess(Tail(s), Tail(t))
    ELSE Ord(Head(s)) < Ord(Head(t))

\* s.find(c): the first position of c in s, 0 when there is none
RECURSIVE FindFrom(_, _, _)
FindFrom(s, c, i) ==
    IF i > Len(s) THEN 0
    ELSE IF s[i] = c THEN i
    ELSE FindFrom(s, c, i + 1)

Find(s, c) == FindFrom(s, c, 1)

\* s.split(sep)
RECURSIVE Split(_, _)
Split(s, sep) ==
    LET i == Find(s, sep)
    IN  IF i = 0 THEN <<s>>
        ELSE <<SubSeq(s, 1, i - 1)>> \o Split(SubSeq(s, i + 1, Len(s)), sep)

\* sep.join(parts)
RECURSIVE JoinWith(_, _)
JoinWith(parts, sep) ==
    IF parts = <<>> THEN <<>>
    ELSE IF Len(parts) = 1 THEN parts[1]
    ELSE parts[1] \o <<sep>> \o JoinWith(Tail(parts), sep)

\* [x for x in parts if keep(x)], for the path parser
RECURSIVE DropEmptyAndDot(_)
DropEmptyAndDot(parts) ==
    IF parts = <<>> THEN <<>>
    ELSE IF Head(parts) = <<>> \/ Head(parts) = <<".">>
         THEN DropEmptyAndDot(Tail(parts))
         ELSE <<Head(parts)>> \o DropEmptyAndDot(Tail(parts))

\* str(i) for i >= 0: the decimal digits
RECURSIVE str(_)
str(i) ==
    IF i < 10 THEN <<Chr(48 + i)>>
    ELSE str(i \div 10) \o <<Chr(48 + (i % 10))>>

-----------------------------------------------------------------------------
(* pathlib *)

\* the root of a POSIX path string: "/", "//" (exactly two slashes) or ""
PathRoot(s) ==
    IF s = <<>> \/ s[1] # "/" THEN <<>>
    ELSE IF Len(s) >= 2 /\ s[2] = "/" /\ (Len(s) = 2 \/ s[3] # "/") THEN <<"/", "/">>
    ELSE <<"/">>

\* the components of a path string, without the root
PathNames(s) == DropEmptyAndDot(Split(s, "/"))

\* Path(s), kept as str(Path(s)): empty and "." components are dropped
Path(s) ==
    LET body == JoinWith(PathNames(s), "/")
    IN  IF PathRoot(s) = <<>> /\ body = <<>> THEN <<".">>
        ELSE PathRoot(s) \o body

\* p / name
Join(p, name) == Path(p \o <<"/">> \o name)

\* p.name
Name(p) ==
    LET names == PathNames(p)
    IN  IF names = <<>> THEN <<>> ELSE names[Len(names)]

\* p.parent
Parent(p) ==
    LET names == PathNames(p)
    IN  IF names = <<>> THEN Path(p)
        ELSE Path(PathRoot(p) \o JoinWith(SubSeq(names, 1, Len(names) - 1), "/"))

\* p < q for paths: the lists of components are compared, root first
RECURSIVE PartsLess(_, _)
PartsLess(a, b) ==
    IF b = <<>> THEN FALSE
    ELSE IF a = <<>> THEN TRUE
    ELSE IF Head(a) = Head(b) THEN PartsLess(Tail(a), Tail(b))
    ELSE StrLess(Head(a), Head(b))

PathParts(p) ==
    IF PathRoot(p) = <<>> THEN PathNames(p) ELSE <<PathRoot(p)>> \o PathNames(p)

PathLess(p, q) == PartsLess(PathParts(p), PathParts(q))

\* fnmatch of a name against a pattern with literal characters, "?" and "*"
\* (case-sensitive, as on POSIX)
RECURSIVE fnmatch(_, _)
fnmatch(name, pat) ==
    IF pat = <<>> THEN name = <<>>
    ELSE IF Head(pat) = "*"
         THEN fnmatch(name, Tail(pat)) \/ (name # <<>> /\ fnmatch(Tail(name), pat))
    ELSE IF Head(pat) = "?"
         THEN name # <<>> /\ fnmatch(Tail(name), Tail(pat))
    ELSE name # <<>> /\ Head(name) = Head(pat) /\ fnmatch(Tail(name), Tail(pat))

exists(fsys, p) == p \in DOMAIN fsys

is_dir(fsys, p) == p \in DOMAIN fsys /\ fsys[p].kind = "dir"

is_file(fsys, p) == p \in DOMAIN fsys /\ fsys[p].kind = "file"

\* p.glob(pat) for a pattern of one component: the entries of directory p
\* whose name matches, files and directories alike, in no particular order
glob(fsys, p, pat) ==
    IF is_dir(fsys, p)
    THEN {Join(p, Name(q)) : q \in {e \in DOMAIN fsys : e # p /\ Parent(e) = p
                                                       /\ fnmatch(Name(e), pat)}}
    ELSE {}

\* mutant of sorted: the entries in the order the directory lists them, here
\* the descending one
RECURSIVE unsorted(_)
unsorted(paths) ==
    IF paths = {} THEN <<>>
    ELSE LET last == CHOOSE p \in paths : \A q \in paths \ {p} : PathLess(q, p)
         IN  <<last>> \o unsorted(paths \ {last})

\* sorted(paths): ascending by PathLess
RECURSIVE sorted(_)
sorted(paths) ==
    IF paths = {} THEN <<>>
    ELSE LET least == CHOOSE p \in paths : \A q \in paths \ {p} : PathLess(p, q)
         IN  <<least>> \o sorted(paths \ {least})

-----------------------------------------------------------------------------
(* Configuration *)

\* Path(__file__).parent / "test_files" / "segments", an absolute directory,
\* written short
SEGMENTS_DIR == <<"/", "s">>

AUDIO_SRC_PREFIX == <<"/", "a", "u", "d", "i", "o", "/", "s", "r", "c">>

BASIC_CONFIG ==
    [namespace |-> "basic", indicator_selector |-> ".basic-playing-indicator",
     enable_speed |-> FALSE, enable_replay |-> FALSE, enable_auto_nav |-> FALSE]

REVIEW_CONFIG ==
    [namespace |-> "review", indicator_selector |-> ".review-playing-indicator",
     enable_speed |-> TRUE, enable_replay |-> TRUE, enable_auto_nav |-> TRUE]

\* the default of build_segment_list's max_display
DefaultMaxDisplay == 6

\* the glob pattern of the startup scan, "*.mp3"
Mp3Pattern == <<"*", ".", "m", "p", "3">>

-----------------------------------------------------------------------------
(* Segment card builders *)

\* namespace.capitalize()
capitalize(namespace) ==
    CASE namespace = "basic" -> "Basic"
      [] namespace = "review" -> "Review"
      [] OTHER -> namespace

\* the card of segment i: what it shows and what its two buttons call
build_segment_card(i, audio_file, namespace) ==
    [tag |-> "div",
     label |-> <<"#">> \o str(i),
     name |-> Name(audio_file),
     indicator_cls |-> <<namespace, "-playing-indicator">>,
     play5 |-> [fn |-> <<"window.play", capitalize(namespace), "Segment">>,
                args |-> <<i, 0, 5>>,
                closest |-> <<namespace, "-card">>],
     full |-> [fn |-> <<"window.play", capitalize(namespace), "Segment">>,
               args |-> <<i, 0, 999>>,
               closest |-> <<namespace, "-card">>],
     cls |-> <<namespace, "-card">>,
     data_audio_file_index |-> str(i),
     data_start_time |-> <<"0">>,
     data_end_time |-> <<"5">>]

\* mutant of enumerate_cards: enumerate(audio_files, 1)
enumerate_from_one(files, namespace) ==
    [k \in 1..Len(files) |-> build_segment_card(k, files[k], namespace)]

\* [build_segment_card(i, f, namespace) for i, f in enumerate(audio_files)]
enumerate_cards(files, namespace) ==
    [k \in 1..Len(files) |-> build_segment_card(k - 1, files[k], namespace)]

\* cards[:n] of Python, for n of either sign
slice_to(cards, n) ==
    IF n >= 0 THEN SubSeq(cards, 1, Min(n, Len(cards)))
    ELSE SubSeq(cards, 1, Max(Len(cards) + n, 0))

\* the "... and K more" paragraph
more_paragraph(k) == [tag |-> "p", more |-> k]

\* mutant of build_segment_list: len(cards) >= max_display
build_segment_list_ge(files, namespace, max_display) ==
    LET cards == enumerate_cards(files, namespace)
        display == slice_to(cards, max_display)
    IN  IF Len(cards) >= max_display
        THEN Append(display, more_paragraph(Len(cards) - max_display))
        ELSE display

build_segment_list(files, namespace, max_display) ==
    LET cards == enumerate_cards(files, namespace)
        display == slice_to(cards, max_display)
    IN  IF Len(cards) > max_display
        THEN Append(display, more_paragraph(Len(cards) - max_display))
        ELSE display

-----------------------------------------------------------------------------
(* Demo page renderer *)

\* one player instance of the page: its cards, and the URL list and config
\* handed to render_audio_urls_input / render_web_audio_script
instance_section(config, files, urls) ==
    [segment_list |-> build_segment_list(files, config.namespace, DefaultMaxDisplay),
     audio_urls_input |-> [config |-> config, audio_urls |-> urls],
     web_audio_script |-> config]

\* page_content() of the closure made by render_demo_page(audio_files, audio_urls)
render_page(closure) ==
    [basic |-> instance_section(BASIC_CONFIG, closure.audio_files, closure.audio_urls),
     review |-> instance_section(REVIEW_CONFIG, closure.audio_files, closure.audio_urls),
     n_segments |-> Len(closure.audio_files)]

\* render_demo_page(audio_files, audio_urls): the closure over both lists
render_demo_page(files, urls) ==
    [defined |-> TRUE, audio_files |-> files, audio_urls |-> urls]

-----------------------------------------------------------------------------
(* Audio URLs: how main() builds them, how a request for one reaches src *)

\* f"{AUDIO_SRC_PREFIX}?path={f}"
build_url(f) == AUDIO_SRC_PREFIX \o <<"?", "p", "a", "t", "h", "=">> \o f

\* [f"{AUDIO_SRC_PREFIX}?path={f}" for f in audio_files]
build_urls(files) == [k \in 1..Len(files) |-> build_url(files[k])]

\* s.replace(old, new) for a single character old
RECURSIVE ReplaceChar(_, _, _)
ReplaceChar(s, old, new) ==
    IF s = <<>> THEN <<>>
    ELSE (IF Head(s) = old THEN new ELSE <<Head(s)>>) \o ReplaceChar(Tail(s), old, new)

\* the value of a hexadecimal digit, -1 for any other character
HexVal(c) ==
    LET n == Ord(c)
    IN  IF n >= 48 /\ n <= 57 THEN n - 48
        ELSE IF n >= 65 /\ n <= 70 THEN n - 55
        ELSE IF n >= 97 /\ n <= 102 THEN n - 87
        ELSE -1

\* unquote: %XX becomes the character XX, any other "%" stays as it is
RECURSIVE unquote(_)
unquote(s) ==
    IF s = <<>> THEN <<>>
    ELSE IF Head(s) = "%" /\ Len(s) >= 3 /\ HexVal(s[2]) >= 0 /\ HexVal(s[3]) >= 0
         THEN <<Chr(16 * HexVal(s[2]) + HexVal(s[3]))>> \o unquote(SubSeq(s, 4, Len(s)))
    ELSE <<Head(s)>> \o unquote(Tail(s))

\* what the client sends for a URL: the fragment (from the first "#") is
\* dropped and a space is percent-encoded
request_target(url) ==
    LET i == Find(url, "#")
        sent == IF i = 0 THEN url ELSE SubSeq(url, 1, i - 1)
    IN  ReplaceChar(sent, " ", <<"%", "2", "0">>)

\* the path of a request target (before the first "?")
target_path(target) ==
    LET i == Find(target, "?")
    IN  IF i = 0 THEN target ELSE SubSeq(target, 1, i - 1)

\* the query string of a request target (after the first "?")
target_query(target) ==
    LET i == Find(target, "?")
    IN  IF i = 0 THEN <<>> ELSE SubSeq(target, i + 1, Len(target))

\* one name=value field of a query string, decoded: "+" is a space, then unquote
query_field(field) ==
    LET i == Find(field, "=")
        k == IF i = 0 THEN field ELSE SubSeq(field, 1, i - 1)
        v == IF i = 0 THEN <<>> ELSE SubSeq(field, i + 1, Len(field))
    IN  [name |-> unquote(ReplaceChar(k, "+", <<" ">>)),
         value |-> unquote(ReplaceChar(v, "+", <<" ">>))]

\* the decoded fields of a query string, split at "&", empty fields skipped
RECURSIVE FieldsOf(_)
FieldsOf(parts) ==
    IF parts = <<>> THEN <<>>
    ELSE IF Head(parts) = <<>> THEN FieldsOf(Tail(parts))
    ELSE <<query_field(Head(parts))>> \o FieldsOf(Tail(parts))

query_params(query) == FieldsOf(Split(query, "&"))

has_param(query, key) == \E k \in 1..Len(query_params(query)) : query_params(query)[k].name = key

\* the argument bound to src's parameter `path: str`: the first value of the
\* query parameter of that name
path_param(query) ==
    LET fields == query_params(query)
        k == CHOOSE j \in 1..Len(fields) :
                /\ fields[j].name = <<"p", "a", "t", "h">>
                /\ \A h \in 1..(j - 1) : fields[h].name # <<"p", "a", "t", "h">>
    IN  fields[k].value

-----------------------------------------------------------------------------
(* Responses *)

NoResponse == [status |-> 0, media_type |-> "", path |-> <<>>, body |-> [kind |-> "none"]]

\* mutant of FileResponse: the media_type argument is dropped
FileResponse_default_type(path, media_type) ==
    [status |-> 200, media_type |-> "application/octet-stream", path |-> path,
     body |-> [kind |-> "unsent"]]

\* FileResponse(path, media_type=...): status 200, the file is read when
\* the response is sent
FileResponse(path, media_type) ==
    [status |-> 200, media_type |-> media_type, path |-> path, body |-> [kind |-> "unsent"]]

\* return "Audio file not found", 404
NotFoundResponse ==
    [status |-> 404, media_type |-> "text/html", path |-> <<>>,
     body |-> [kind |-> "text", text |-> "Audio file not found"]]

\* the FileResponse, sent: the bytes the file holds when it is sent
SentFile(response, fsys) ==
    [response EXCEPT !.body = [kind |-> "bytes", bytes |-> fsys[response.path].bytes]]

\* the FileResponse whose file is no longer a regular file when it is sent:
\* the exception surfaces as a server error
ServerError(response) ==
    [status |-> 500, media_type |-> "text/plain", path |-> response.path,
     body |-> [kind |-> "exception", exception |-> "RuntimeError"]]

\* handle_htmx_request(request, page_content)
PageResponse(closure) ==
    [status |-> 200, media_type |-> "text/html", path |-> <<>>,
     body |-> [kind |-> "page", page |-> render_page(closure)]]

\* mutant of src_is_file: a path served before is taken to be a file still
src_is_file_cached(fsys, path) ==
    \/ is_file(fsys, Path(path))
    \/ \E r \in DOMAIN reqs : /\ reqs[r].handler = "src"
                               /\ reqs[r].path = path
                               /\ reqs[r].resp.status = 200

\* mutant of src_is_file: only files inside the segments directory are served
src_is_file_contained(fsys, path) ==
    is_file(fsys, Path(path)) /\ Parent(Path(path)) = SEGMENTS_DIR

\* src: the branch taken for a path argument, Path(path).is_file()
src_is_file(fsys, path) == is_file(fsys, Path(path))

\* src: what the handler returns
src(fsys, path) ==
    IF src_is_file(fsys, path)
    THEN FileResponse(Path(path), "audio/mpeg")
    ELSE NotFoundResponse

-----------------------------------------------------------------------------
(* The filesystem the program runs on *)

Dir == [kind |-> "dir", bytes |-> ""]

File(b) == [kind |-> "file", bytes |-> b]

\* the contents a file can hold
Contents == {"x", "y"}

NameA == <<"a", ".", "m", "p", "3">>
NameB == <<"b", ".", "m", "p", "3">>

\* a file outside the segments directory
Outside == <<"/", "o", ".", "m", "p", "3">>

\* the names the scan is tried on (SpecStartup): matching and not matching,
\* upper and lower case, a prefix of another, characters special in a URL
StartupNames ==
    {NameA, NameB,
     <<"B", ".", "m", "p", "3">>,
     <<"a", "b", ".", "m", "p", "3">>,
     <<".", "m", "p", "3">>,
     <<"c", ".", "w", "a", "v">>,
     <<"a", ".", "M", "P", "3">>,
     <<"a", "m", "p", "3">>,
     <<"a", ".", "m", "p", "3", "x">>,
     <<"a", "&", "b", ".", "m", "p", "3">>,
     <<"a", "+", "b", ".", "m", "p", "3">>,
     <<"a", "#", ".", "m", "p", "3">>,
     <<"a", "%", "4", "1", ".", "m", "p", "3">>,
     <<"a", "%", ".", "m", "p", "3">>,
     <<"a", " ", "b", ".", "m", "p", "3">>}

\* an entry of this name is a directory, the others are files
DirName == <<"d", ".", "m", "p", "3">>

\* a filesystem with the segments directory holding `names`
FsWith(names) ==
    [p \in {SEGMENTS_DIR, Outside} \cup {Join(SEGMENTS_DIR, n) : n \in names} |->
        IF p = SEGMENTS_DIR \/ p = Join(SEGMENTS_DIR, DirName) THEN Dir ELSE File("x")]

\* a filesystem without the segments directory
FsWithout == [p \in {Outside} |-> File("x")]

\* a filesystem where the segments path is a regular file
FsSegmentsIsFile == [p \in {SEGMENTS_DIR, Outside} |-> File("x")]

\* the paths the environment creates, rewrites and removes
ChangedPaths == {Join(SEGMENTS_DIR, NameA), Join(SEGMENTS_DIR, NameB), Outside}

\* path arguments a client sends of its own accord: a file outside the
\* segments directory, the directory itself, a path that is not normalised
RawPaths == {Outside, SEGMENTS_DIR, SEGMENTS_DIR \o <<"/", "/">> \o NameA}

\* write_bytes: create the file or replace its contents
FsWrite(p, b) ==
    /\ fsOps < MaxFsOps
    /\ is_dir(fs, Parent(p)) \/ Parent(p) = <<"/">>
    /\ ~is_dir(fs, p)
    /\ ~(is_file(fs, p) /\ fs[p].bytes = b)
    /\ fs' = [q \in DOMAIN fs \cup {p} |-> IF q = p THEN File(b) ELSE fs[q]]
    /\ fsOps' = fsOps + 1
    /\ UNCHANGED <<pc, stdout, audio_files, audio_urls, router, app_routes,
                   page_content, reqs, listCall>>

\* unlink
FsRemove(p) ==
    /\ fsOps < MaxFsOps
    /\ is_file(fs, p)
    /\ fs' = [q \in DOMAIN fs \ {p} |-> fs[q]]
    /\ fsOps' = fsOps + 1
    /\ UNCHANGED <<pc, stdout, audio_files, audio_urls, router, app_routes,
                   page_content, reqs, listCall>>

\* rmtree of the segments directory
FsRemoveTree ==
    /\ fsOps < MaxFsOps
    /\ is_dir(fs, SEGMENTS_DIR)
    /\ fs' = [q \in {e \in DOMAIN fs : e # SEGMENTS_DIR /\ Parent(e) # SEGMENTS_DIR} |-> fs[q]]
    /\ fsOps' = fsOps + 1
    /\ UNCHANGED <<pc, stdout, audio_files, audio_urls, router, app_routes,
                   page_content, reqs, listCall>>

-----------------------------------------------------------------------------
(* main() *)

Line(msg, n) == [msg |-> msg, n |-> n]

\* mutant of scan: the missing directory is passed over in silence
scan_silent(fsys) ==
    [audio_files |-> sorted(glob(fsys, SEGMENTS_DIR, Mp3Pattern)), printed |-> <<>>]

\* the startup scan: the files found, and what is printed about them
scan(fsys) ==
    IF exists(fsys, SEGMENTS_DIR)
    THEN [audio_files |-> sorted(glob(fsys, SEGMENTS_DIR, Mp3Pattern)), printed |-> <<>>]
    ELSE [audio_files |-> <<>>, printed |-> <<Line("Warning: No segments dir", 0)>>]

\* lines 228-239: the banner, the scan, the count
Scan ==
    /\ pc = "scan"
    /\ audio_files' = scan(fs).audio_files
    /\ stdout' = stdout \o <<Line("Initializing", 0)>> \o scan(fs).printed
                        \o <<Line("Found audio segments", Len(scan(fs).audio_files))>>
    /\ pc' = "urls"
    /\ UNCHANGED <<fs, fsOps, audio_urls, router, app_routes, page_content, reqs, listCall>>

\* lines 241-242
BuildUrls ==
    /\ pc = "urls"
    /\ audio_urls' = build_urls(audio_files)
    /\ pc' = "app"
    /\ UNCHANGED <<fs, fsOps, stdout, audio_files, router, app_routes, page_content,
                   reqs, listCall>>

\* lines 244-265: the app, the two routers, src declared on audio_router
CreateApp ==
    /\ pc = "app"
    /\ router' = router \cup {[path |-> <<"/", "a", "u", "d", "i", "o", "/", "s", "r", "c">>,
                               handler |-> "src"]}
    /\ pc' = "page"
    /\ UNCHANGED <<fs, fsOps, stdout, audio_files, audio_urls, app_routes, page_content,
                   reqs, listCall>>

\* lines 271-276: the page closure, index declared on router
MakePage ==
    /\ pc = "page"
    /\ page_content' = render_demo_page(audio_files, audio_urls)
    /\ router' = router \cup {[path |-> <<"/">>, handler |-> "index"]}
    /\ pc' = "register"
    /\ UNCHANGED <<fs, fsOps, stdout, audio_files, audio_urls, app_routes, reqs, listCall>>

\* lines 281-292: register_routes and the route listing
RegisterRoutes ==
    /\ pc = "register"
    /\ app_routes' = app_routes \cup router
    /\ stdout' = stdout \o <<Line("Registered Routes", Cardinality(app_routes \cup router)),
                             Line("Demo App Ready!", 0)>>
    /\ pc' = "return"
    /\ UNCHANGED <<fs, fsOps, audio_files, audio_urls, router, page_content, reqs, listCall>>

\* line 294 and lines 302-323: main() returns the app and uvicorn serves it
Serve ==
    /\ pc = "return"
    /\ pc' = "serving"
    /\ UNCHANGED <<fs, fsOps, stdout, audio_files, audio_urls, router, app_routes,
                   page_content, reqs, listCall>>

-----------------------------------------------------------------------------
(* Requests *)

Req == 1..MaxRequests

Idle == [handler |-> "none", url |-> <<>>, path |-> <<>>, pc |-> "idle", resp |-> NoResponse]

\* a connection is free, and the ones before it are taken
Free(r) == reqs[r].pc = "idle" /\ (IF r = 1 THEN TRUE ELSE reqs[r - 1].pc # "idle")

\* the handler registered for a request target, "none" when no route matches
route_of(target) ==
    IF \E rt \in app_routes : rt.path = target_path(target)
    THEN (CHOOSE rt \in app_routes : rt.path = target_path(target)).handler
    ELSE "none"

\* mutant of page_closure: the directory is scanned again for each page
page_closure_rescan ==
    render_demo_page(scan(fs).audio_files, build_urls(scan(fs).audio_files))

\* the files and URLs index renders: those the closure holds
page_closure == page_content

\* GET / : index, lines 273-276
Index(r) ==
    /\ pc = "serving"
    /\ Free(r)
    /\ route_of(<<"/">>) = "index"
    /\ reqs' = [reqs EXCEPT ![r] = [handler |-> "index", url |-> <<"/">>, path |-> <<>>,
                                    pc |-> "done", resp |-> PageResponse(page_closure)]]
    /\ UNCHANGED <<fs, fsOps, pc, stdout, audio_files, audio_urls, router, app_routes,
                   page_content, listCall>>

\* GET url : src, lines 259-265, called with the path parameter of the query
Src(r, url) ==
    /\ pc = "serving"
    /\ Free(r)
    /\ route_of(request_target(url)) = "src"
    /\ has_param(target_query(request_target(url)), <<"p", "a", "t", "h">>)
    /\ LET path == path_param(target_query(request_target(url)))
           response == src(fs, path)
       IN  reqs' = [reqs EXCEPT ![r] = [handler |-> "src", url |-> url, path |-> path,
                                        pc |-> IF response.status = 200 THEN "send" ELSE "done",
                                        resp |-> response]]
    /\ UNCHANGED <<fs, fsOps, pc, stdout, audio_files, audio_urls, router, app_routes,
                   page_content, listCall>>

\* the FileResponse returned at line 264 is sent: the file is opened and read
\* only now, after the handler has returned
SendFile(r) ==
    /\ reqs[r].pc = "send"
    /\ reqs' = [reqs EXCEPT ![r].pc = "done",
                            ![r].resp = IF is_file(fs, reqs[r].resp.path)
                                        THEN SentFile(reqs[r].resp, fs)
                                        ELSE ServerError(reqs[r].resp)]
    /\ UNCHANGED <<fs, fsOps, pc, stdout, audio_files, audio_urls, router, app_routes,
                   page_content, listCall>>

-----------------------------------------------------------------------------
(* A call of build_segment_list *)

NoCall == [files |-> <<>>, namespace |-> "basic", max_display |-> DefaultMaxDisplay,
           called |-> FALSE, display |-> <<>>]

\* the k-th file of a list handed to build_segment_list
ListFile(k) == Join(SEGMENTS_DIR, <<"f">> \o str(k) \o <<".", "m", "p", "3">>)

ListFiles(n) == [k \in 1..n |-> ListFile(k)]

CallBuildSegmentList ==
    /\ pc = "list"
    /\ ~listCall.called
    /\ listCall' = [listCall EXCEPT
                      !.called = TRUE,
                      !.display = build_segment_list(listCall.files, listCall.namespace,
                                                     listCall.max_display)]
    /\ UNCHANGED <<fs, fsOps, pc, stdout, audio_files, audio_urls, router, app_routes,
                   page_content, reqs>>

-----------------------------------------------------------------------------
(* Specifications *)

NoClosure == [defined |-> FALSE, audio_files |-> <<>>, audio_urls |-> <<>>]

InitProgram ==
    /\ fsOps = 0
    /\ stdout = <<>>
    /\ audio_files = <<>>
    /\ audio_urls = <<>>
    /\ router = {}
    /\ app_routes = {}
    /\ page_content = NoClosure
    /\ reqs = [r \in Req |-> Idle]

\* the server from startup on, on a filesystem that changes
Init ==
    /\ fs \in {FsWithout} \cup {FsWith(names) : names \in SUBSET {NameA, NameB}}
    /\ pc = "scan"
    /\ listCall = NoCall
    /\ InitProgram

Main == Scan \/ BuildUrls \/ CreateApp \/ MakePage \/ RegisterRoutes \/ Serve

Environment ==
    \/ \E p \in ChangedPaths, b \in Contents : FsWrite(p, b)
    \/ \E p \in ChangedPaths : FsRemove(p)
    \/ FsRemoveTree

Next ==
    \/ Main
    \/ Environment
    \/ \E r \in Req : Index(r)
    \/ \E r \in Req, url \in Range(audio_urls) \cup {build_url(p) : p \in RawPaths} : Src(r, url)
    \/ \E r \in Req : SendFile(r)

Spec == Init /\ [][Next]_vars

\* startup on each directory of at most MaxEntries entries, then the page
\* or one of its audio URLs requested on the first connection, the
\* filesystem left alone
InitStartup ==
    /\ fs \in {FsWithout, FsSegmentsIsFile}
              \cup {FsWith(names) : names \in {ns \in SUBSET (StartupNames \cup {DirName}) :
                                                   Cardinality(ns) <= MaxEntries}}
    /\ pc = "scan"
    /\ listCall = NoCall
    /\ InitProgram

NextStartup ==
    \/ Main
    \/ Index(1)
    \/ \E url \in Range(audio_urls) : Src(1, url)
    \/ SendFile(1)

SpecStartup == InitStartup /\ [][NextStartup]_vars

\* build_segment_list on each list of at most MaxFiles files, for each
\* max_display up to MaxDisplay and both namespaces
InitList ==
    /\ fs = FsWithout
    /\ pc = "list"
    /\ listCall \in {[files |-> ListFiles(n), namespace |-> ns, max_display |-> m,
                      called |-> FALSE, display |-> <<>>] :
                        n \in 0..MaxFiles, m \in 0..MaxDisplay, ns \in {"basic", "review"}}
    /\ InitProgram

NextList == CallBuildSegmentList

SpecList == InitList /\ [][NextList]_vars

-----------------------------------------------------------------------------
(* Properties *)

Warning == Line("Warning: No segments dir", 0)

\* the name ends in ".mp3"
EndsWithMp3(n) ==
    Len(n) >= 4 /\ SubSeq(n, Len(n) - 3, Len(n)) = <<".", "m", "p", "3">>

\* a comes strictly before b: at the first position where they differ, a
\* has ended or holds the smaller code point
NameBefore(a, b) ==
    \E i \in 1..Len(b) :
        /\ \A j \in 1..(i - 1) : j <= Len(a) /\ a[j] = b[j]
        /\ i > Len(a) \/ Ord(a[i]) < Ord(b[i])

\* the entry of the segments directory called n
Entry(n) == SEGMENTS_DIR \o <<"/">> \o n

\* the names of the entries the segments directory holds
EntryNames == {n \in StartupNames \cup {DirName} : Entry(n) \in DOMAIN fs}

\* C1: once the scan has run on an existing segments directory, audio_files
\* holds the entries whose name ends in ".mp3", each exactly once, none of
\* the other entries, in strictly ascending order of name.
C1_ScanYieldsMatchingSorted ==
    (pc # "scan" /\ is_dir(fs, SEGMENTS_DIR)) =>
        /\ Len(audio_files) = Cardinality({n \in EntryNames : EndsWithMp3(n)})
        /\ \A n \in EntryNames :
              EndsWithMp3(n) <=> (\E k \in 1..Len(audio_files) : audio_files[k] = Entry(n))
        /\ \A k \in 1..Len(audio_files) :
              \E n \in EntryNames : EndsWithMp3(n) /\ audio_files[k] = Entry(n)
        /\ \A k \in 1..(Len(audio_files) - 1) :
              NameBefore(Name(audio_files[k]), Name(audio_files[k + 1]))

\* C1 witness: a scanned directory with at least two matching entries and
\* one that does not match.
C1_Witness ==
    /\ pc # "scan"
    /\ is_dir(fs, SEGMENTS_DIR)
    /\ Len(audio_files) >= 2
    /\ \E n \in EntryNames : ~EndsWithMp3(n)

\* the request of connection r came from the k-th audio URL
FromUrl(r, k) == reqs[r].handler = "src" /\ reqs[r].url = audio_urls[k]

\* C4: the path parameter src receives for the k-th audio URL names the
\* k-th audio file.
C4_UrlRoundTrip ==
    \A r \in Req : \A k \in 1..Len(audio_urls) :
        FromUrl(r, k) => Path(reqs[r].path) = audio_files[k]

\* the number a string of decimal digits writes
RECURSIVE DecimalValue(_)
DecimalValue(digits) ==
    IF digits = <<>> THEN 0
    ELSE 10 * DecimalValue(SubSeq(digits, 1, Len(digits) - 1))
         + (Ord(digits[Len(digits)]) - 48)

\* the cards of a rendered segment list
CardsOf(display) == {k \in 1..Len(display) : display[k].tag = "div"}

\* C9: build_segment_list renders the cards of the first min(n, max_display)
\* files, in list order, followed by one "... and K more" paragraph with
\* K = n - max_display exactly when n > max_display.
C9_ListTruncated ==
    listCall.called =>
        LET n == Len(listCall.files)
            m == listCall.max_display
            d == listCall.display
            shown == IF n < m THEN n ELSE m
        IN  /\ CardsOf(d) = 1..shown
            /\ \A k \in 1..shown :
                  /\ d[k].name = Name(listCall.files[k])
                  /\ d[k].label = <<"#">> \o str(k - 1)
            /\ IF n > m
               THEN Len(d) = shown + 1 /\ d[shown + 1] = [tag |-> "p", more |-> n - m]
               ELSE Len(d) = shown

\* C9 witness: a list longer than max_display, truncated to some cards and
\* the paragraph.
C9_Witness ==
    /\ listCall.called
    /\ Len(listCall.files) > listCall.max_display
    /\ listCall.max_display >= 2
    /\ listCall.display[Len(listCall.display)].tag = "p"

\* the card at position k of a section shows file j = k of audio_files and
\* names that index in its data attribute and in both play handlers
CardAligned(section, k) ==
    LET card == section.segment_list[k]
        i == DecimalValue(card.data_audio_file_index)
    IN  /\ i = k - 1
        /\ card.name = Name(audio_files[i + 1])
        /\ card.play5.args[1] = i
        /\ card.full.args[1] = i
        /\ section.audio_urls_input.audio_urls[i + 1]
             = AUDIO_SRC_PREFIX \o <<"?", "p", "a", "t", "h", "=">> \o audio_files[i + 1]

\* C10: the URL list matches the file list in length and order, and in a
\* rendered page every card of either instance carries the index of the
\* file it shows, which is the index of that file's URL.
C10_IndexAlignment ==
    /\ pc \notin {"scan", "urls"} =>
          /\ Len(audio_urls) = Len(audio_files)
          /\ \A k \in 1..Len(audio_files) :
                audio_urls[k] = AUDIO_SRC_PREFIX \o <<"?", "p", "a", "t", "h", "=">>
                                                 \o audio_files[k]
    /\ \A r \in Req :
          (reqs[r].handler = "index" /\ reqs[r].pc = "done") =>
              LET page == reqs[r].resp.body.page
              IN  /\ \A k \in CardsOf(page.basic.segment_list) : CardAligned(page.basic, k)
                  /\ \A k \in CardsOf(page.review.segment_list) : CardAligned(page.review, k)
                  /\ Cardinality(CardsOf(page.basic.segment_list)) = Len(audio_files)
                  /\ Cardinality(CardsOf(page.review.segment_list)) = Len(audio_files)

\* C10 witness: a rendered page with at least two cards in each instance.
C10_Witness ==
    \E r \in Req :
        /\ reqs[r].handler = "index"
        /\ reqs[r].pc = "done"
        /\ Cardinality(CardsOf(reqs[r].resp.body.page.basic.segment_list)) >= 2
        /\ Cardinality(CardsOf(reqs[r].resp.body.page.review.segment_list)) >= 2

\* connection r takes a step in which src is called
SrcCalled(r) == reqs[r].pc = "idle" /\ reqs'[r].handler = "src"

\* connection r takes the step in which its FileResponse is sent
FileSent(r) == reqs[r].pc = "send" /\ reqs'[r].pc = "done"

\* C2: called with a path that names a regular file, src answers with a
\* FileResponse of status 200 and media type audio/mpeg for that file, and
\* the response sent while the file is there carries the file's bytes.
C2_ExistingFileServed ==
    [][\A r \in Req :
          /\ (SrcCalled(r) /\ is_file(fs, Path(reqs'[r].path))) =>
                /\ reqs'[r].pc = "send"
                /\ reqs'[r].resp.status = 200
                /\ reqs'[r].resp.media_type = "audio/mpeg"
                /\ reqs'[r].resp.path = Path(reqs'[r].path)
          /\ (FileSent(r) /\ is_file(fs, Path(reqs[r].path))) =>
                /\ reqs'[r].resp.status = 200
                /\ reqs'[r].resp.media_type = "audio/mpeg"
                /\ reqs'[r].resp.body = [kind |-> "bytes", bytes |-> fs[Path(reqs[r].path)].bytes]
      ]_vars

\* C2 witness: a file rewritten by the environment has been served with its
\* new bytes.
C2_Witness ==
    \E r \in Req :
        /\ reqs[r].handler = "src"
        /\ reqs[r].pc = "done"
        /\ reqs[r].resp.status = 200
        /\ reqs[r].resp.media_type = "audio/mpeg"
        /\ reqs[r].resp.body = [kind |-> "bytes", bytes |-> "y"]

\* C3: a src request whose path is not a regular file when the request
\* ends, ends with status 404 and the body "Audio file not found", no file
\* bytes read and no exception.
C3_NonFileGets404 ==
    [][\A r \in Req :
          (/\ reqs[r].pc # "done"
           /\ reqs'[r].pc = "done"
           /\ reqs'[r].handler = "src"
           /\ ~is_file(fs, Path(reqs'[r].path)))
          => reqs'[r].resp = NotFoundResponse
      ]_vars

\* C5: a scan that finds no segments directory leaves audio_files empty and
\* prints the warning; main() is never stuck after it, and once it serves,
\* the page closure holds the empty lists and both routes are registered.
C5_MissingDirNonFatal ==
    [][/\ (pc = "scan" /\ pc' # "scan" /\ ~exists(fs, SEGMENTS_DIR)) =>
             /\ audio_files' = <<>>
             /\ Warning \in Range(stdout')
             /\ pc' = "urls"
       /\ (Warning \in Range(stdout) /\ pc # "serving") => ENABLED Main
       /\ (Warning \in Range(stdout') /\ pc' = "serving") =>
             /\ audio_files' = <<>>
             /\ audio_urls' = <<>>
             /\ page_content' = [defined |-> TRUE, audio_files |-> <<>>, audio_urls |-> <<>>]
             /\ {rt.path : rt \in app_routes'}
                  = {<<"/">>, <<"/", "a", "u", "d", "i", "o", "/", "s", "r", "c">>}
      ]_vars

\* C5 witness: the app serves after a scan without segments directory, and
\* has rendered its page with no segments.
C5_Witness ==
    /\ pc = "serving"
    /\ Warning \in Range(stdout)
    /\ \E r \in Req : /\ reqs[r].handler = "index"
                      /\ reqs[r].pc = "done"
                      /\ reqs[r].resp.body.page.n_segments = 0

\* the names the cards of a section show, in order
ShownNames(section) ==
    [k \in 1..Cardinality(CardsOf(section.segment_list)) |-> section.segment_list[k].name]

\* the names of the first files of the scan result, as many as a page shows
FirstNames ==
    [k \in 1..(IF Len(audio_files) < DefaultMaxDisplay THEN Len(audio_files)
               ELSE DefaultMaxDisplay) |-> Name(audio_files[k])]

\* C6: audio_files changes in the scan step only and audio_urls in the two
\* startup steps only; no request is handled before the server serves; and
\* every page rendered shows the files and URLs of audio_files and
\* audio_urls, whatever the directory holds by then.
C6_ScannedOnce ==
    [][/\ pc # "scan" => audio_files' = audio_files
       /\ pc \notin {"scan", "urls"} => audio_urls' = audio_urls
       /\ (pc # "scan" /\ pc' = "scan") => FALSE
       /\ \A r \in Req :
             /\ reqs'[r].pc # "idle" => pc = "serving"
             /\ (reqs[r].pc = "idle" /\ reqs'[r].handler = "index") =>
                   LET page == reqs'[r].resp.body.page
                   IN  /\ page.n_segments = Len(audio_files)
                       /\ ShownNames(page.basic) = FirstNames
                       /\ ShownNames(page.review) = FirstNames
                       /\ page.basic.audio_urls_input.audio_urls = audio_urls
                       /\ page.review.audio_urls_input.audio_urls = audio_urls
      ]_vars

\* C6 witness: a page rendered after the directory changed so that a new
\* scan would give another list.
C6_Witness ==
    \E r \in Req :
        /\ reqs[r].handler = "index"
        /\ reqs[r].pc = "done"
        /\ fsOps > 0
        /\ scan(fs).audio_files # audio_files
        /\ reqs[r].resp.body.page.n_segments = Len(audio_files)
        /\ Len(audio_files) > 0

\* C7: a step of a src request changes nothing but that request: not the
\* filesystem, not the application state, not another request; and what it
\* answers is fixed by its own path and the filesystem of that moment.
C7_SrcStateless ==
    [][\A r \in Req :
          (reqs'[r] # reqs[r] /\ reqs'[r].handler = "src") =>
             /\ UNCHANGED <<fs, pc, stdout, audio_files, audio_urls, router, app_routes,
                            page_content>>
             /\ \A q \in Req \ {r} : reqs'[q] = reqs[q]
             /\ reqs'[r].path = reqs[r].path \/ reqs[r].pc = "idle"
             /\ reqs[r].pc = "idle" =>
                   reqs'[r].resp.status
                     = (IF Path(reqs'[r].path) \in DOMAIN fs
                           /\ fs[Path(reqs'[r].path)].kind = "file" THEN 200 ELSE 404)
             /\ reqs[r].pc = "send" =>
                   reqs'[r].resp.body.kind
                     = (IF Path(reqs'[r].path) \in DOMAIN fs
                           /\ fs[Path(reqs'[r].path)].kind = "file" THEN "bytes" ELSE "exception")
      ]_vars

\* C7 witness: two requests for the same path have been handled while
\* another was in progress, and were answered differently because the
\* filesystem differed.
C7_Witness ==
    \E r, q \in Req :
        /\ r # q
        /\ reqs[r].handler = "src" /\ reqs[q].handler = "src"
        /\ reqs[r].path = reqs[q].path
        /\ reqs[r].pc = "done" /\ reqs[q].pc = "done"
        /\ reqs[r].resp.status = 200 /\ reqs[q].resp.status = 404

\* the path lies outside the segments directory or is not in the scan result
Unlisted(p) ==
    \/ \A k \in 1..Len(audio_files) : audio_files[k] # p
    \/ Len(p) < 3 \/ SubSeq(p, 1, 3) # <<"/", "s", "/">>

\* C8: a regular file that is outside the segments directory or absent
\* from the scan result is served like any other: src answers 200 for it
\* and the response sent carries its bytes.
C8_NoContainmentCheck ==
    [][\A r \in Req :
          /\ (SrcCalled(r) /\ Unlisted(Path(reqs'[r].path))
                /\ is_file(fs, Path(reqs'[r].path))) =>
                (reqs'[r].resp.status = 200 /\ reqs'[r].resp.path = Path(reqs'[r].path))
          /\ (FileSent(r) /\ Unlisted(Path(reqs[r].path))
                /\ is_file(fs, Path(reqs[r].path))) =>
                (reqs'[r].resp.status = 200 /\ reqs'[r].resp.body.kind = "bytes")
      ]_vars

\* C8 witness: the file outside the segments directory has been served,
\* and so has a file of the directory that the scan did not list.
C8_Witness ==
    /\ \E r \in Req :
          /\ reqs[r].pc = "done"
          /\ reqs[r].resp.status = 200
          /\ reqs[r].resp.body.kind = "bytes"
          /\ reqs[r].resp.path = Outside
    /\ \E r \in Req :
          /\ reqs[r].pc = "done"
          /\ reqs[r].resp.status = 200
          /\ reqs[r].resp.body.kind = "bytes"
          /\ reqs[r].resp.path = Entry(NameA)
          /\ \A k \in 1..Len(audio_files) : audio_files[k] # Entry(NameA)

====
